---- MODULE Spec2Model ----
(***************************************************************************)
(* FDD Co-Pilot (raushan_app.py): a Streamlit script.  Every interaction   *)
(* of the user (an upload, a tile click, a radio choice, typed text, the   *)
(* Submit button) re-runs the script from its first line to its last.      *)
(* What survives a run is st.session_state (conversation_history,          *)
(* predefined_questions) and the widgets' values; the local vector_store   *)
(* is set to None and rebuilt from the uploaded files in every run.        *)
(*                                                                         *)
(* Text is a sequence of one-character strings, so that join, slicing,     *)
(* split and strip are computed as Python computes them.                   *)
(***************************************************************************)
EXTENDS Integers, Sequences, FiniteSets, TLC

VARIABLES
    uploaded_files,        \* value of st.file_uploader: the uploaded batch, in order
    vector_store,          \* the local vector_store at the end of the last run
    conversation_history,  \* st.session_state.conversation_history
    predefined_questions,  \* st.session_state.predefined_questions
    question,              \* value of the st.radio ("" when no tile was chosen)
    custom_question,       \* value of the st.text_input
    max_context_length,    \* value of the sidebar number_input
    messages,              \* st.success / st.error of the document loop, last run
    embedded,              \* chunk lists sent to the embedding service, last run
    index_trace,           \* vector_store after each iteration of the loop, last run
    injected,              \* the statement that raised for each file, last run
    events,                \* what the Submit handler did in the last run, in order
    fn_in,                 \* input of a function applied in isolation
    fn_out                 \* its result

vars == <<uploaded_files, vector_store, conversation_history, predefined_questions,
          question, custom_question, max_context_length, messages, embedded,
          index_trace, injected, events, fn_in, fn_out>>

session_vars == <<uploaded_files, vector_store, conversation_history,
                  predefined_questions, question, custom_question,
                  max_context_length, messages, embedded, index_trace, injected,
                  events>>

(***************************************************************************)
(* Bounds of the model.                                                    *)
(***************************************************************************)
MaxUpload == 3          \* files in one uploaded batch (document-loop specification)
MaxHist == 2            \* recorded conversation entries
MinContextLength == 1   \* range of max_context_length, scaled down from 1000..8000
MaxContextLength == 4
DefaultContextLength == 3  \* its default, scaled down from 3000
MaxChunkLen == 2        \* characters of a retrieved chunk (prompt-builder inputs)
MaxResponseLen == 5     \* characters of a raw answer (parser inputs)

K == 3                  \* similarity_search(question, k=3)

(***************************************************************************)
(* Sequences.                                                              *)
(***************************************************************************)
Range(s) == {s[i] : i \in 1..Len(s)}

SeqsUpTo(S, n) == UNION {[1..m -> S] : m \in 0..n}

Min(a, b) == IF a < b THEN a ELSE b

RECURSIVE Flatten(_)
Flatten(ss) == IF ss = <<>> THEN <<>> ELSE Head(ss) \o Flatten(Tail(ss))

(***************************************************************************)
(* Python str operations used by the script.                               *)
(***************************************************************************)
Whitespace == {" ", "\n"}

\* sub in s
Contains(s, sub) ==
    \E i \in 1..(Len(s) - Len(sub) + 1) : SubSeq(s, i, i + Len(sub) - 1) = sub

\* s.find(sub) + 1, 0 when absent
Find(s, sub) ==
    IF Contains(s, sub)
    THEN CHOOSE i \in 1..(Len(s) - Len(sub) + 1) :
            /\ SubSeq(s, i, i + Len(sub) - 1) = sub
            /\ \A j \in 1..(i - 1) : SubSeq(s, j, j + Len(sub) - 1) # sub
    ELSE 0

\* s.split(sep): cut at every occurrence of sep, left to right
RECURSIVE Split(_, _)
Split(s, sep) ==
    LET i == Find(s, sep)
    IN  IF i = 0 THEN <<s>>
        ELSE <<SubSeq(s, 1, i - 1)>> \o Split(SubSeq(s, i + Len(sep), Len(s)), sep)

RECURSIVE LStrip(_)
LStrip(s) == IF s # <<>> /\ Head(s) \in Whitespace THEN LStrip(Tail(s)) ELSE s

RECURSIVE RStrip(_)
RStrip(s) ==
    IF s # <<>> /\ s[Len(s)] \in Whitespace THEN RStrip(SubSeq(s, 1, Len(s) - 1)) ELSE s

\* s.strip()
Strip(s) == RStrip(LStrip(s))

\* " ".join(parts)
RECURSIVE Join(_)
Join(parts) ==
    IF parts = <<>> THEN <<>>
    ELSE IF Len(parts) = 1 THEN parts[1]
    ELSE parts[1] \o <<" ">> \o Join(Tail(parts))

(***************************************************************************)
(* Document processing and vector storage (the loop over uploaded_files).  *)
(***************************************************************************)
Files == {"A.pdf", "B.pdf"}

\* text_splitter.split_text(text) of each file's extracted text
FileChunks(f) ==
    CASE f = "A.pdf" -> << <<"a", "b">>, <<"c">> >>
      [] OTHER       -> << <<"d">> >>

\* the statement of the try block that raises, "none" when none does
Faults == {"none", "PdfReader", "split_text", "OpenAIEmbeddings", "from_texts",
           "merge_from"}

NoStore == [isNone |-> TRUE, docs |-> <<>>]

\* FAISS.from_texts(chunks, embeddings)
FromTexts(chunks) == [isNone |-> FALSE, docs |-> chunks]

\* vector_store.merge_from(temp_vector_store)
MergeFromDropsOld(vs, temp) == [isNone |-> FALSE, docs |-> temp.docs]

MergeFrom(vs, temp) == [isNone |-> FALSE, docs |-> vs.docs \o temp.docs]

Success(f) == [kind |-> "success", file |-> f]
Error(f) == [kind |-> "error", file |-> f]

\* one iteration of the loop: the try block and its except clause.  merge_from
\* is library code: a raise inside it is taken to leave the store as it was.
ProcessFileLosesIndex(vs, f, fault) ==
    IF fault \in {"PdfReader", "split_text", "OpenAIEmbeddings"}
    THEN [vs |-> NoStore, msg |-> Error(f), sent |-> <<>>]
    ELSE IF fault \in {"from_texts", "merge_from"}
    THEN [vs |-> NoStore, msg |-> Error(f), sent |-> <<FileChunks(f)>>]
    ELSE IF vs.isNone
    THEN [vs |-> FromTexts(FileChunks(f)), msg |-> Success(f), sent |-> <<FileChunks(f)>>]
    ELSE [vs |-> MergeFrom(vs, FromTexts(FileChunks(f))), msg |-> Success(f),
          sent |-> <<FileChunks(f)>>]

ProcessFile(vs, f, fault) ==
    IF fault \in {"PdfReader", "split_text", "OpenAIEmbeddings"}
    THEN [vs |-> vs, msg |-> Error(f), sent |-> <<>>]
    ELSE IF fault \in {"from_texts", "merge_from"}
    THEN [vs |-> vs, msg |-> Error(f), sent |-> <<FileChunks(f)>>]
    ELSE IF vs.isNone
    THEN [vs |-> FromTexts(FileChunks(f)), msg |-> Success(f), sent |-> <<FileChunks(f)>>]
    ELSE [vs |-> MergeFrom(vs, FromTexts(FileChunks(f))), msg |-> Success(f),
          sent |-> <<FileChunks(f)>>]

\* vector_store = None, then the loop over files[i..]
RECURSIVE ProcessFrom(_, _, _, _)
ProcessFrom(acc, files, faults, i) ==
    IF i > Len(files) THEN acc
    ELSE LET r == ProcessFile(acc.vs, files[i], faults[i])
         IN  ProcessFrom([vs    |-> r.vs,
                          msgs  |-> Append(acc.msgs, r.msg),
                          sent  |-> acc.sent \o r.sent,
                          trace |-> Append(acc.trace, r.vs)],
                         files, faults, i + 1)

ProcessDocuments(files, faults) ==
    ProcessFrom([vs |-> NoStore, msgs |-> <<>>, sent |-> <<>>, trace |-> <<>>],
                files, faults, 1)

\* merge_from is called only once a store exists: it can raise for file i only
\* when an earlier file of the batch was processed
Realizable(faults) ==
    \A i \in DOMAIN faults :
        faults[i] = "merge_from" => \E j \in 1..(i - 1) : faults[j] = "none"

\* the document section of one script run over the batch `files`
Ingest(files) ==
    \E faults \in [1..Len(files) -> Faults] :
        /\ Realizable(faults)
        /\ LET r == ProcessDocuments(files, faults)
           IN  /\ vector_store' = r.vs
               /\ messages' = r.msgs
               /\ embedded' = r.sent
               /\ index_trace' = r.trace
               /\ injected' = faults

(***************************************************************************)
(* Predefined questions (the tiles) and the question widgets.              *)
(***************************************************************************)
\* the list each tile's button stores in st.session_state.predefined_questions
TileQuestions(t) ==
    CASE t = "Revenue" ->
            <<"Is there a declining trend in revenue?",
              "Is there an overall increase in revenue?",
              "What are the different sources of income?">>
      [] t = "Expenses" ->
            <<"Is there an increasing trend in expenses?",
              "What are the major contributors to total expenses?",
              "How do expenses compare to revenue over time?">>
      [] t = "Profit Metrics" ->
            <<"What is the net profit margin over time?",
              "How does the company's profitability compare to competitors?",
              "Are there any significant fluctuations in profit margins?",
              "What factors contribute to profit growth or decline?">>
      [] t = "Assets" ->
            <<"What are the company's most valuable assets?",
              "How have the assets grown or depreciated over time?",
              "What proportion of assets are liquid?",
              "Are there any high-risk or underperforming assets?">>
      [] OTHER ->
            <<"What are the key limitations of this company?",
              "Are there any significant financial risks?",
              "Where does the company lag behind competitors?",
              "Are there gaps in the company's product or service offerings?">>

\* st.radio over the stored list: a new list of options shows its first option,
\* the same list keeps the user's choice; no list, question = ""
RadioValue(options, old_options, old_value) ==
    IF options = <<>> THEN ""
    ELSE IF options = old_options THEN old_value
    ELSE options[1]

(***************************************************************************)
(* The Submit handler.                                                     *)
(***************************************************************************)
Event(op, q, data) == [op |-> op, q |-> q, data |-> data]

\* question = custom_question if custom_question else question
EffectiveQuestionPrefersRadio(custom, radio) == IF radio # "" THEN radio ELSE custom

EffectiveQuestion(custom, radio) == IF custom # "" THEN custom ELSE radio

\* if vector_store and question
CanAnswerIgnoresQuestion(vs, q) == ~vs.isNone

CanAnswer(vs, q) == ~vs.isNone /\ q # ""

\* vector_store.similarity_search(question, k): min(k, size) distinct documents of
\* the store, in the order the library ranks them
SimilaritySearch(vs, k) ==
    LET n == Min(k, Len(vs.docs))
        picks == {p \in [1..n -> 1..Len(vs.docs)] :
                     \A i, j \in 1..n : i # j => p[i] # p[j]}
    IN  {[i \in 1..n |-> vs.docs[p[i]]] : p \in picks}

\* context[:max_context_length] if len(context) > max_context_length else context
LimitContextOffByOne(context, m) ==
    IF Len(context) >= m THEN SubSeq(context, 1, m - 1) ELSE context

LimitContext(context, m) ==
    IF Len(context) > m THEN SubSeq(context, 1, m) ELSE context

\* " ".join(chunk.page_content ...) and the limit
BuildContext(relevant_chunks, m) == LimitContext(Join(relevant_chunks), m)

\* the literal the parser looks for, "Follow-up questions:", as two characters
Marker == <<"F", ":">>

\* the extraction of follow-up questions from response_text
ParseResponse(response_text) ==
    IF Contains(response_text, Marker)
    THEN LET split_response == Split(response_text, Marker)
         IN  [main_response |-> split_response[1],
              follow_up_questions |-> Split(Strip(split_response[2]), <<"\n">>)]
    ELSE [main_response |-> response_text, follow_up_questions |-> <<>>]

\* the follow-ups shown: those with follow_up.strip(), as follow_up.strip()
RECURSIVE DisplayedFollowUps(_)
DisplayedFollowUps(fus) ==
    IF fus = <<>> THEN <<>>
    ELSE IF Strip(Head(fus)) # <<>>
    THEN <<Strip(Head(fus))>> \o DisplayedFollowUps(Tail(fus))
    ELSE DisplayedFollowUps(Tail(fus))

\* st.session_state.conversation_history.append({...})
RecordFirst(history, q, main_response) ==
    <<[question |-> q, response |-> main_response]>> \o history

Record(history, q, main_response) ==
    Append(history, [question |-> q, response |-> main_response])

\* what the answer service does with one Submit
LLMOutcomes(responses) ==
    {[kind |-> "ChatGroq_raises", content |-> <<>>],
     [kind |-> "invoke_raises", content |-> <<>>]}
    \cup {[kind |-> "ok", content |-> r] : r \in responses}

\* the try block around the answer service, and its except clause
GenerateResponseRecordsPartial(history, q, context, llm) ==
    IF llm.kind = "ChatGroq_raises"
    THEN [history |-> history,
          events |-> <<Event("ChatGroq", q, <<>>), Event("error", q, <<>>)>>]
    ELSE IF llm.kind = "invoke_raises"
    THEN [history |-> Record(history, q, <<>>),
          events |-> <<Event("ChatGroq", q, <<>>), Event("invoke", q, context),
                       Event("error", q, <<>>)>>]
    ELSE LET parsed == ParseResponse(llm.content)
         IN  [history |-> Record(history, q, parsed.main_response),
              events |-> <<Event("ChatGroq", q, <<>>), Event("invoke", q, context),
                           Event("parse", q, llm.content),
                           Event("markdown", q, parsed.main_response),
                           Event("append", q, parsed.main_response)>>]

GenerateResponseRetries(history, q, context, llm) ==
    IF llm.kind = "ChatGroq_raises"
    THEN [history |-> history,
          events |-> <<Event("ChatGroq", q, <<>>), Event("error", q, <<>>)>>]
    ELSE IF llm.kind = "invoke_raises"
    THEN [history |-> history,
          events |-> <<Event("ChatGroq", q, <<>>), Event("invoke", q, context),
                       Event("invoke", q, context), Event("error", q, <<>>)>>]
    ELSE LET parsed == ParseResponse(llm.content)
         IN  [history |-> Record(history, q, parsed.main_response),
              events |-> <<Event("ChatGroq", q, <<>>), Event("invoke", q, context),
                           Event("parse", q, llm.content),
                           Event("markdown", q, parsed.main_response),
                           Event("append", q, parsed.main_response)>>]

GenerateResponse(history, q, context, llm) ==
    IF llm.kind = "ChatGroq_raises"
    THEN [history |-> history,
          events |-> <<Event("ChatGroq", q, <<>>), Event("error", q, <<>>)>>]
    ELSE IF llm.kind = "invoke_raises"
    THEN [history |-> history,
          events |-> <<Event("ChatGroq", q, <<>>), Event("invoke", q, context),
                       Event("error", q, <<>>)>>]
    ELSE LET parsed == ParseResponse(llm.content)
         IN  [history |-> Record(history, q, parsed.main_response),
              events |-> <<Event("ChatGroq", q, <<>>), Event("invoke", q, context),
                           Event("parse", q, llm.content),
                           Event("markdown", q, parsed.main_response),
                           Event("append", q, parsed.main_response)>>]

\* the body of `if st.button("Submit"):`
SubmitHandler(vs, history, custom, radio, m, relevant_chunks, llm) ==
    LET q == EffectiveQuestion(custom, radio)
    IN  IF CanAnswer(vs, q)
        THEN LET context == BuildContext(relevant_chunks, m)
                 r == GenerateResponse(history, q, context, llm)
             IN  [history |-> r.history,
                  events |-> <<Event("similarity_search", q, <<>>),
                               Event("prompt", q, context)>> \o r.events]
        ELSE [history |-> history, events |-> <<Event("warning", q, <<>>)>>]

(***************************************************************************)
(* The interactions: each one is a whole run of the script.                *)
(***************************************************************************)
NoInput == [fn |-> "none", text |-> <<>>, chunks |-> <<>>, m |-> 0]
NoOutput == [done |-> FALSE, main |-> <<>>, follow_ups |-> <<>>, context |-> <<>>,
             m |-> 0]

Init ==
    /\ uploaded_files = <<>>
    /\ vector_store = NoStore
    /\ conversation_history = <<>>
    /\ predefined_questions = <<>>
    /\ question = ""
    /\ custom_question = ""
    /\ max_context_length = DefaultContextLength
    /\ messages = <<>>
    /\ embedded = <<>>
    /\ index_trace = <<>>
    /\ injected = <<>>
    /\ events = <<>>
    /\ fn_in = NoInput
    /\ fn_out = NoOutput

\* the user adds a file to the uploader
Upload(f) ==
    /\ Len(uploaded_files) < MaxUpload
    /\ uploaded_files' = Append(uploaded_files, f)
    /\ Ingest(uploaded_files')
    /\ events' = <<>>
    /\ UNCHANGED <<conversation_history, predefined_questions, question,
                   custom_question, max_context_length, fn_in, fn_out>>

\* the user empties the uploader
ClearFiles ==
    /\ uploaded_files # <<>>
    /\ uploaded_files' = <<>>
    /\ Ingest(uploaded_files')
    /\ events' = <<>>
    /\ UNCHANGED <<conversation_history, predefined_questions, question,
                   custom_question, max_context_length, fn_in, fn_out>>

\* the user clicks a tile
ClickTile(t) ==
    /\ Ingest(uploaded_files)
    /\ predefined_questions' = TileQuestions(t)
    /\ question' = RadioValue(TileQuestions(t), predefined_questions, question)
    /\ events' = <<>>
    /\ UNCHANGED <<uploaded_files, conversation_history, custom_question,
                   max_context_length, fn_in, fn_out>>

\* the user picks another predefined question
ChooseRadio(q) ==
    /\ q \in Range(predefined_questions)
    /\ q # question
    /\ Ingest(uploaded_files)
    /\ question' = q
    /\ events' = <<>>
    /\ UNCHANGED <<uploaded_files, conversation_history, predefined_questions,
                   custom_question, max_context_length, fn_in, fn_out>>

\* the user types, or clears, the custom question
TypeCustom(text) ==
    /\ text # custom_question
    /\ Ingest(uploaded_files)
    /\ custom_question' = text
    /\ events' = <<>>
    /\ UNCHANGED <<uploaded_files, conversation_history, predefined_questions,
                   question, max_context_length, fn_in, fn_out>>

\* the user changes Max Context Length in the sidebar
SetMaxContextLength(m) ==
    /\ m # max_context_length
    /\ Ingest(uploaded_files)
    /\ max_context_length' = m
    /\ events' = <<>>
    /\ UNCHANGED <<uploaded_files, conversation_history, predefined_questions,
                   question, custom_question, fn_in, fn_out>>

\* the user clicks Submit
Submit(responses) ==
    /\ Len(conversation_history) < MaxHist
    /\ Ingest(uploaded_files)
    /\ \E relevant_chunks \in SimilaritySearch(vector_store', K),
          llm \in LLMOutcomes(responses) :
          LET r == SubmitHandler(vector_store', conversation_history, custom_question,
                                 question, max_context_length, relevant_chunks, llm)
          IN  /\ conversation_history' = r.history
              /\ events' = r.events
    /\ UNCHANGED <<uploaded_files, predefined_questions, question, custom_question,
                   max_context_length, fn_in, fn_out>>

(***************************************************************************)
(* The session: each file uploaded once, one file, two of the tiles.       *)
(***************************************************************************)
SessionFiles == {"A.pdf"}
SessionTiles == {"Revenue", "Expenses"}
SessionCustom == {"", "What changed in the fourth control period?"}
SessionResponses == {<<"a">>, <<"b", "F", ":", "q">>}

Next ==
    \/ \E f \in SessionFiles \ Range(uploaded_files) : Upload(f)
    \/ ClearFiles
    \/ \E t \in SessionTiles : ClickTile(t)
    \/ \E q \in Range(predefined_questions) : ChooseRadio(q)
    \/ \E text \in SessionCustom : TypeCustom(text)
    \/ Submit(SessionResponses)

Spec == Init /\ [][Next]_vars

(***************************************************************************)
(* The document loop on batches of up to MaxUpload files.                  *)
(***************************************************************************)
NextIngest ==
    \/ \E f \in Files : Upload(f)
    \/ ClearFiles

SpecIngest == Init /\ [][NextIngest]_vars

(***************************************************************************)
(* The prompt builder's context and the response parser, applied to every  *)
(* input within the bounds, under every Max Context Length setting.        *)
(***************************************************************************)
ChunkAlphabet == {"a", " "}
ResponseAlphabet == {"a", " ", "\n", "F", ":"}

ContextInputs ==
    {[fn |-> "context", text |-> <<>>, chunks |-> cs, m |-> 0] :
        cs \in SeqsUpTo(SeqsUpTo(ChunkAlphabet, MaxChunkLen), K)}

ParseInputs ==
    {[fn |-> "parse", text |-> t, chunks |-> <<>>, m |-> 0] :
        t \in SeqsUpTo(ResponseAlphabet, MaxResponseLen)}

InitPure ==
    /\ uploaded_files = <<>>
    /\ vector_store = NoStore
    /\ conversation_history = <<>>
    /\ predefined_questions = <<>>
    /\ question = ""
    /\ custom_question = ""
    /\ max_context_length = DefaultContextLength
    /\ messages = <<>>
    /\ embedded = <<>>
    /\ index_trace = <<>>
    /\ injected = <<>>
    /\ events = <<>>
    /\ fn_in \in ContextInputs \cup ParseInputs
    /\ fn_out = NoOutput

\* context assembly of the Submit handler on fn_in.chunks
ApplyBuildContext ==
    /\ fn_in.fn = "context"
    /\ ~fn_out.done
    /\ fn_out' = [done |-> TRUE, main |-> <<>>, follow_ups |-> <<>>,
                  context |-> BuildContext(fn_in.chunks, max_context_length),
                  m |-> max_context_length]
    /\ UNCHANGED <<session_vars, fn_in>>

\* follow-up extraction and display of the Submit handler on fn_in.text
ApplyParseResponse ==
    /\ fn_in.fn = "parse"
    /\ ~fn_out.done
    /\ LET parsed == ParseResponse(fn_in.text)
       IN  fn_out' = [done |-> TRUE, main |-> parsed.main_response,
                      follow_ups |-> DisplayedFollowUps(parsed.follow_up_questions),
                      context |-> <<>>, m |-> 0]
    /\ UNCHANGED <<session_vars, fn_in>>

NextPure ==
    \/ \E m \in MinContextLength..MaxContextLength : SetMaxContextLength(m)
    \/ ApplyBuildContext
    \/ ApplyParseResponse

SpecPure == InitPure /\ [][NextPure]_vars

(***************************************************************************)
(* Properties.                                                             *)
(***************************************************************************)
Ops(ev) == {ev[i].op : i \in 1..Len(ev)}

Positions(ev, op) == {i \in 1..Len(ev) : ev[i].op = op}

\* the question a Submit works on, as the widgets show it
Asked == IF custom_question # "" THEN custom_question ELSE question

\* C1: a Submit whose answer-service call (ChatGroq(...) or llm.invoke) raises
\* reports the error and leaves the conversation history exactly as it was:
\* nothing is displayed as an answer and nothing is appended.
C1_ServiceErrorLeavesHistory ==
    [][("ChatGroq" \in Ops(events') /\ "parse" \notin Ops(events'))
         => /\ events'[Len(events')].op = "error"
            /\ Ops(events') \cap {"markdown", "append"} = {}
            /\ conversation_history' = conversation_history]_vars

C1_Witness ==
    /\ "invoke" \in Ops(events)
    /\ events[Len(events)].op = "error"
    /\ conversation_history # <<>>

\* C2: a Submit with no predefined question selected and no custom text, with an
\* index present, only shows the warning: no similarity search, no prompt, no
\* LLM call, and the conversation history is unchanged.
C2_EmptyQuestionOnlyWarns ==
    [][(events' # <<>> /\ custom_question' = "" /\ question' = ""
            /\ ~vector_store'.isNone)
         => /\ Ops(events') = {"warning"}
            /\ conversation_history' = conversation_history]_vars

C2_Witness ==
    /\ Ops(events) = {"warning"}
    /\ custom_question = ""
    /\ question = ""
    /\ ~vector_store.isNone
    /\ conversation_history # <<>>

\* C3: in every batch, each file gets exactly one report, an error exactly when
\* one of its processing statements raised; a failing file leaves the index as
\* it stood before it; and after the batch the index holds exactly the chunks
\* of the files that did not fail.
C3_FailureIsPerFile ==
    LET n == Len(uploaded_files)
        ok(i) == injected[i] = "none"
        before(i) == IF i = 1 THEN NoStore ELSE index_trace[i - 1]
    IN  /\ Len(messages) = n
        /\ Len(index_trace) = n
        /\ \A i \in 1..n :
              /\ messages[i] = [kind |-> IF ok(i) THEN "success" ELSE "error",
                                file |-> uploaded_files[i]]
              /\ ~ok(i) => index_trace[i] = before(i)
        /\ vector_store.docs =
              Flatten([i \in 1..n |-> IF ok(i) THEN FileChunks(uploaded_files[i])
                                      ELSE <<>>])
        /\ vector_store.isNone <=> (\A i \in 1..n : ~ok(i))

C3_Witness ==
    /\ Len(uploaded_files) = 3
    /\ injected = <<"none", "merge_from", "none">>
    /\ messages[2].kind = "error"
    /\ vector_store.docs = FileChunks(uploaded_files[1]) \o FileChunks(uploaded_files[3])

Count(docs, c) == Cardinality({i \in 1..Len(docs) : docs[i] = c})

\* C4: within a batch, after each successfully processed file the index holds
\* every chunk it held before, as often as before, together with every chunk of
\* that file; and no iteration of the loop leaves fewer copies of any chunk.
C4_MergeIsAccretion ==
    \A i \in 1..Len(index_trace) :
        LET prev == IF i = 1 THEN NoStore ELSE index_trace[i - 1]
            cur == index_trace[i]
            new == FileChunks(uploaded_files[i])
        IN  /\ SubSeq(cur.docs, 1, Len(prev.docs)) = prev.docs
            /\ \A c \in Range(prev.docs) \cup Range(new) :
                  /\ Count(cur.docs, c) >= Count(prev.docs, c)
                  /\ injected[i] = "none" =>
                        Count(cur.docs, c) = Count(prev.docs, c) + Count(new, c)
            /\ ~prev.isNone => ~cur.isNone

C4_Witness ==
    /\ Len(uploaded_files) = 3
    /\ \A i \in 1..3 : injected[i] = "none"
    /\ uploaded_files[1] # uploaded_files[2]
    /\ Len(vector_store.docs) > Len(FileChunks(uploaded_files[1]))

\* C5: once an index has been built, a later Submit sends none of the chunks
\* that index holds to the embedding service again.
C5_NoReEmbedding ==
    [][(events' # <<>> /\ ~vector_store.isNone)
         => \A i \in 1..Len(embedded') :
               Range(embedded'[i]) \cap Range(vector_store.docs) = {}]_vars

\* C6: for every raw answer, if it contains the marker the main answer is the
\* text before the marker and the follow-ups are the lines of all the text
\* after the marker, trimmed, blank ones dropped; without the marker the main
\* answer is the whole text and there are no follow-ups.
C6_ParsePartition ==
    (fn_out.done /\ fn_in.fn = "parse") =>
        LET t == fn_in.text
            at == Find(t, Marker)
            after == SubSeq(t, at + Len(Marker), Len(t))
        IN  IF at > 0
            THEN /\ fn_out.main = SubSeq(t, 1, at - 1)
                 /\ fn_out.follow_ups = DisplayedFollowUps(Split(after, <<"\n">>))
            ELSE /\ fn_out.main = t
                 /\ fn_out.follow_ups = <<>>

\* C7: the context is the retrieved chunks in retrieval order with one space
\* between neighbours; longer than max_context_length, it is cut to exactly its
\* first max_context_length characters, otherwise it is left as it is.
C7_ContextIsJoinedAndCut ==
    (fn_out.done /\ fn_in.fn = "context") =>
        LET cs == fn_in.chunks
            joined == Flatten([i \in 1..Len(cs) |->
                                  IF i = 1 THEN cs[i] ELSE <<" ">> \o cs[i]])
        IN  IF Len(joined) > fn_out.m
            THEN /\ Len(fn_out.context) = fn_out.m
                 /\ \A p \in 1..fn_out.m : fn_out.context[p] = joined[p]
            ELSE fn_out.context = joined

C7_Witness ==
    /\ fn_out.done
    /\ fn_in.fn = "context"
    /\ Len(fn_in.chunks) = K
    /\ Len(Join(fn_in.chunks)) > fn_out.m
    /\ Len(fn_out.context) = fn_out.m
    /\ fn_out.m # DefaultContextLength

\* C8: the question that is searched for, put in the prompt and recorded is the
\* custom text whenever that is non-empty, whatever the radio shows, and the
\* radio's question only when the custom text is empty.
C8_CustomTextWins ==
    /\ \A i \in 1..Len(events) :
          events[i].op \in {"similarity_search", "prompt", "invoke", "append"}
             => events[i].q = Asked
    /\ "append" \in Ops(events)
          => conversation_history[Len(conversation_history)].question = Asked

C8_Witness ==
    /\ "append" \in Ops(events)
    /\ custom_question # ""
    /\ question # ""
    /\ conversation_history[Len(conversation_history)].question = custom_question

\* C9: over every interaction the history either stays as it is or gains one
\* entry at its end, the pair of the Submit's question and the main answer it
\* displayed; so it never shrinks and no recorded entry changes or moves.
C9_HistoryAppendOnly ==
    [][\/ conversation_history' = conversation_history
       \/ /\ Cardinality(Positions(events', "markdown")) = 1
          /\ \E i \in Positions(events', "markdown") :
                conversation_history' =
                    Append(conversation_history,
                           [question |-> Asked, response |-> events'[i].data])]_vars

C9_Witness ==
    /\ Len(conversation_history) = 2
    /\ "append" \in Ops(events)
    /\ conversation_history[1] # conversation_history[2]

====
